---- MODULE Spec2Model ----
(***************************************************************************)
(* Iguanas pipeline core: LinearPipeline (linear_pipeline.py) and          *)
(* ClassAccessor (class_accessor.py).                                      *)
(*                                                                         *)
(* Python objects are modelled with reference semantics:                   *)
(*   - step objects live in `store` (object id -> step state); `steps` and *)
(*     `steps_` are lists of (tag, object id) entries;                     *)
(*   - tables (DataFrames) live in the per-call `heap` (object id -> table *)
(*     value); X, X_init are handles naming heap objects.                  *)
(* A table value is a sequence of naturals: the caller's data followed by  *)
(* one mark per step that transformed it.                                  *)
(***************************************************************************)
EXTENDS Integers, Sequences, FiniteSets, TLC

\* ---------------------------------------------------------------- bounds
MaxSteps == 2
MaxCalls == 2

Callers == {1, 2}
Modes == {"pure", "inplace"}

VARIABLES
    steps,          \* self.steps: the configured (tag, step) list
    steps_,         \* self.steps_: <<>> until a fit call assigns it
    rules,          \* self.rules: <<>> until a fit call assigns it
    use_init_data,  \* self.use_init_data
    store,          \* the step objects: object id -> step state
    calls,          \* per caller: the frame of its public call
    ncalls,         \* number of public calls made so far
    nfits,          \* number of fit calls that have returned successfully
    acc,            \* a ClassAccessor: (class_tag, class_attribute)
    pipeline_params,\* the state mapping handed to ClassAccessor.get
    got,            \* outcome of the last ClassAccessor.get
    ngets,          \* number of get calls made on the present state mapping
    earlier         \* outcome of the last get on an earlier state mapping

vars == <<steps, steps_, rules, use_init_data, store, calls, ncalls, nfits,
          acc, pipeline_params, got, ngets, earlier>>

pipeVars == <<steps, steps_, rules, use_init_data, store, calls, ncalls, nfits>>
accVars == <<acc, pipeline_params, got, ngets, earlier>>

\* ------------------------------------------------------------- data model
NoneSeq == <<>>

\* A handle on a Python value passed as X: a table, a mapping from step tag
\* to table, None, or a value of any other type.
NoneX == [kind |-> "none", refs |-> <<>>]
OtherX == [kind |-> "other", refs |-> <<>>]
TableX(ref) == [kind |-> "table", refs |-> <<ref>>]
MappingX(refs) == [kind |-> "mapping", refs |-> refs]

\* use_init_data: None, or a list of tags (only membership and truthiness
\* of the list are ever read).
UseInitNone == [isNone |-> TRUE, tags |-> {}]
UseInitList(ts) == [isNone |-> FALSE, tags |-> ts]

\* An unfitted step object of the given behaviour.
Template(mode) == [mode |-> mode, fits |-> 0, rules |-> NoneSeq]

Max(S) == CHOOSE m \in S : \A n \in S : n <= m

Last(s) == s[Len(s)]

\* s[:-1]
ButLast(s) == SubSeq(s, 1, Len(s) - 1)

IdleCall ==
    [api |-> "none", phase |-> "none", pc |-> "idle",
     Xarg |-> NoneX, X |-> NoneX, X_init |-> NoneX,
     y |-> "none", sample_weight |-> "none",
     lst |-> <<>>, i |-> 0,
     heap |-> <<>>, heap0 |-> <<>>, orig |-> <<>>, log |-> <<>>,
     err |-> "none", ret |-> NoneSeq]

\* The pipeline object as a record, for the handlers below.
Pipe == [steps |-> steps, steps_ |-> steps_, rules |-> rules,
         use_init_data |-> use_init_data, store |-> store]

\* ------------------------------------------------ utilities and step contract

\* utils.check_allowed_types(x, name, allowed): TRUE when x passes.
check_allowed_types(kind, allowed) == kind \in allowed

\* utils.return_dataset_if_dict: the table a step with this tag works on.
return_dataset_if_dict(step_tag, X) ==
    IF X.kind = "mapping" THEN X.refs[step_tag] ELSE X.refs[1]

\* The mark a step leaves on the table it produces.
StepMark(st, step_tag, cap) ==
    (IF cap = "predict" THEN 100 ELSE 0) + 10 * step_tag + st.fits

\* What fitting a step on table value v with target y leaves as its rules.
FittedRules(v, y, fits) == v \o <<IF y = "series" THEN 7 ELSE 8, fits>>

\* One capability call on a step object (_pipeline_fit_transform,
\* _pipeline_fit, _pipeline_transform, _pipeline_predict and the step itself).
\* A "pure" step returns a new table; an "inplace" step writes its result into
\* the table it was given and returns that same table.
run_step(st, step_tag, cap, X, y, heap) ==
    IF X.kind \in {"none", "other"}
    THEN [raised |-> TRUE, st |-> st, heap |-> heap, X |-> X,
          in |-> NoneSeq, out |-> NoneSeq]
    ELSE
      LET ref == return_dataset_if_dict(step_tag, X)
          v == heap[ref]
          fitting == cap \in {"fit", "fit_transform"}
          st2 == IF fitting
                 THEN [st EXCEPT !.fits = @ + 1,
                                 !.rules = FittedRules(v, y, st.fits + 1)]
                 ELSE st
          outv == Append(v, StepMark(st2, step_tag, cap))
          heap2 == IF st.mode = "inplace"
                   THEN [heap EXCEPT ![ref] = outv]
                   ELSE IF cap = "fit" THEN heap ELSE Append(heap, outv)
          Xout == IF cap = "fit" THEN NoneX
                  ELSE IF st.mode = "inplace" THEN TableX(ref)
                  ELSE TableX(Len(heap) + 1)
      IN [raised |-> FALSE, st |-> st2, heap |-> heap2, X |-> Xout,
          in |-> v, out |-> IF cap = "fit" THEN NoneSeq ELSE outv]

\* X.copy(): DataFrame.copy() copies the data; dict.copy() is a new dict
\* holding the same table objects.
CopyX(X, heap) ==
    IF X.kind = "table"
    THEN [X |-> TableX(Len(heap) + 1), heap |-> Append(heap, heap[X.refs[1]])]
    ELSE [X |-> X, heap |-> heap]

\* Variant without the copy: steps_ names the configured step objects.
deepcopy_alias(lst, st, base) == [lst |-> lst, store |-> st]

\* copy.deepcopy(self.steps): new step objects with the same state, placed
\* after every object still referenced (`base` = highest live object id).
deepcopy(lst, st, base) ==
    [lst |-> [j \in 1..Len(lst) |-> [tag |-> lst[j].tag, obj |-> base + j]],
     store |-> SubSeq(st, 1, base) \o [j \in 1..Len(lst) |-> st[lst[j].obj]]]

\* ------------------------------------------------------- LinearPipeline helpers

\* Variant with the two branches exchanged.
_return_X_inverted(uid, step_tag, X, X_init) ==
    IF ~uid.isNone /\ step_tag \in uid.tags THEN X ELSE X_init

_return_X(uid, step_tag, X, X_init) ==
    IF ~uid.isNone /\ step_tag \in uid.tags THEN X_init ELSE X

\* Variant that copies only when use_init_data lists more than one tag.
_copy_X_if_several(uid, X, heap) ==
    IF ~uid.isNone /\ (\E s, t \in uid.tags : s # t)
    THEN CopyX(X, heap)
    ELSE [X |-> NoneX, heap |-> heap]

_copy_X_if_use_init_data(uid, X, heap) ==
    IF ~uid.isNone /\ uid.tags # {}
    THEN CopyX(X, heap)
    ELSE [X |-> NoneX, heap |-> heap]

\* The value of the original input of the running phase that the step with
\* this tag would work on (taken when the phase began).
OrigFor(K, step_tag) ==
    IF K.Xarg.kind \in {"table", "mapping"}
    THEN K.orig[return_dataset_if_dict(step_tag, K.Xarg)]
    ELSE NoneSeq

LogEntry(K, pos, e, cap, r, fitsBefore, ok) ==
    [phase |-> K.phase, pos |-> pos, tag |-> e.tag, obj |-> e.obj, cap |-> cap,
     in |-> r.in, init |-> OrigFor(K, e.tag), out |-> IF ok THEN r.out ELSE NoneSeq,
     fits |-> fitsBefore, ok |-> ok]

\* Variant that catches the exception of the step and goes on with the next
\* step.
Abort_and_go_on(P, K, entry) ==
    [P |-> P, K |-> [K EXCEPT !.i = @ + 1, !.log = Append(@, entry)]]

\* A step raised: the exception leaves the public call.
Abort(P, K, entry) ==
    [P |-> P,
     K |-> [K EXCEPT !.err = "StepError", !.pc = "done", !.log = Append(@, entry)]]

Raise(P, K, err) ==
    [P |-> P, K |-> [K EXCEPT !.err = err, !.pc = "done"]]

\* --------------------------------------------------------- LinearPipeline.fit

\* Highest object id still referenced by the configuration or a running call.
LiveBase(P, cs) ==
    Max({P.steps[j].obj : j \in 1..Len(P.steps)}
        \cup UNION {{cs[c].lst[j].obj : j \in 1..Len(cs[c].lst)} :
                    c \in {d \in Callers : cs[d].pc \notin {"idle", "done"}}})

\* The heap before the caller's X was copied or touched is kept in heap0,
\* and the heap at the start of the running fit / transform / predict in orig.

\* Variant replacing steps_ before the arguments are checked.
fit_begin_copy_first(P, K, base) ==
    LET dc == deepcopy(P.steps, P.store, base)
        P2 == [P EXCEPT !.steps_ = dc.lst, !.store = dc.store]
    IN IF ~check_allowed_types(K.Xarg.kind, {"table", "mapping"})
          \/ ~check_allowed_types(K.y, {"series", "mapping"})
          \/ (K.sample_weight # "none"
              /\ ~check_allowed_types(K.sample_weight, {"series", "mapping"}))
       THEN Raise(P2, K, "TypeError")
       ELSE
         LET ci == _copy_X_if_use_init_data(P.use_init_data, K.Xarg, K.heap)
         IN [P |-> P2,
             K |-> [K EXCEPT !.phase = "fit", !.pc = "fit_loop",
                             !.X = K.Xarg, !.X_init = ci.X, !.heap = ci.heap,
                             !.orig = K.heap,
                             !.lst = ButLast(dc.lst), !.i = 1]]

\* fit, lines 72-78: the type checks, the X_init copy, steps_ = deepcopy(steps).
fit_begin(P, K, base) ==
    IF ~check_allowed_types(K.Xarg.kind, {"table", "mapping"})
       \/ ~check_allowed_types(K.y, {"series", "mapping"})
       \/ (K.sample_weight # "none"
           /\ ~check_allowed_types(K.sample_weight, {"series", "mapping"}))
    THEN Raise(P, K, "TypeError")
    ELSE
      LET ci == _copy_X_if_use_init_data(P.use_init_data, K.Xarg, K.heap)
          dc == deepcopy(P.steps, P.store, base)
      IN [P |-> [P EXCEPT !.steps_ = dc.lst, !.store = dc.store],
          K |-> [K EXCEPT !.phase = "fit", !.pc = "fit_loop",
                          !.X = K.Xarg, !.X_init = ci.X, !.heap = ci.heap,
                          !.orig = K.heap,
                          !.lst = ButLast(dc.lst), !.i = 1]]

\* fit, lines 79-84: one iteration of the loop over steps_[:-1].
fit_loop_step(P, K, fail) ==
    LET e == K.lst[K.i]
        st == P.store[e.obj]
        Xin == _return_X(P.use_init_data, e.tag, K.X, K.X_init)
        r == run_step(st, e.tag, "fit_transform", Xin, K.y, K.heap)
        ok == ~fail /\ ~r.raised
        entry == LogEntry(K, K.i, e, "fit_transform", r, st.fits, ok)
    IN IF ~ok THEN Abort(P, K, entry)
       ELSE [P |-> [P EXCEPT !.store[e.obj] = r.st],
             K |-> [K EXCEPT !.X = r.X, !.heap = r.heap, !.i = @ + 1,
                             !.log = Append(@, entry)]]

\* Variant running the combined fit-and-transform on the last step too.
fit_final_fit_transform(P, K, fail) ==
    LET e == Last(P.steps_)
        st == P.store[e.obj]
        Xin == _return_X(P.use_init_data, e.tag, K.X, K.X_init)
        r == run_step(st, e.tag, "fit_transform", Xin, K.y, K.heap)
        ok == ~fail /\ ~r.raised
        entry == LogEntry(K, Len(P.steps_), e, "fit_transform", r, st.fits, ok)
    IN IF ~ok THEN Abort(P, K, entry)
       ELSE [P |-> [P EXCEPT !.store[e.obj] = r.st, !.rules = r.st.rules],
             K |-> [K EXCEPT !.X = Xin, !.heap = r.heap, !.pc = "fit_done",
                             !.lst = <<>>, !.log = Append(@, entry)]]

\* Variant reading the rules of the configured last step (self.steps[-1]).
fit_final_template_rules(P, K, fail) ==
    LET e == Last(P.steps_)
        st == P.store[e.obj]
        Xin == _return_X(P.use_init_data, e.tag, K.X, K.X_init)
        r == run_step(st, e.tag, "fit", Xin, K.y, K.heap)
        ok == ~fail /\ ~r.raised
        entry == LogEntry(K, Len(P.steps_), e, "fit", r, st.fits, ok)
    IN IF ~ok THEN Abort(P, K, entry)
       ELSE [P |-> [P EXCEPT !.store[e.obj] = r.st,
                             !.rules = P.store[Last(P.steps).obj].rules],
             K |-> [K EXCEPT !.X = Xin, !.heap = r.heap, !.pc = "fit_done",
                             !.lst = <<>>, !.log = Append(@, entry)]]

\* fit, lines 85-92: the last step is fitted and its rules become the
\* pipeline's rules.
fit_final(P, K, fail) ==
    LET e == Last(P.steps_)
        st == P.store[e.obj]
        Xin == _return_X(P.use_init_data, e.tag, K.X, K.X_init)
        r == run_step(st, e.tag, "fit", Xin, K.y, K.heap)
        ok == ~fail /\ ~r.raised
        entry == LogEntry(K, Len(P.steps_), e, "fit", r, st.fits, ok)
    IN IF ~ok THEN Abort(P, K, entry)
       ELSE [P |-> [P EXCEPT !.store[e.obj] = r.st, !.rules = r.st.rules],
             K |-> [K EXCEPT !.X = Xin, !.heap = r.heap, !.pc = "fit_done",
                             !.lst = <<>>, !.log = Append(@, entry)]]

\* ---------------------------------------- LinearPipeline.transform / predict

\* transform, lines 140-142: type check, X_init copy, start of the loop over
\* self.steps_ (noSteps: the error Python raises when steps_ was never set).
transform_begin(P, K, noSteps) ==
    IF ~check_allowed_types(K.Xarg.kind, {"table", "mapping"})
    THEN Raise(P, K, "TypeError")
    ELSE
      LET ci == _copy_X_if_use_init_data(P.use_init_data, K.Xarg, K.heap)
      IN IF P.steps_ = <<>>
         THEN Raise(P, [K EXCEPT !.phase = "transform", !.heap = ci.heap], noSteps)
         ELSE [P |-> P,
               K |-> [K EXCEPT !.phase = "transform", !.pc = "transform_loop",
                               !.X = K.Xarg, !.X_init = ci.X, !.heap = ci.heap,
                               !.orig = K.heap, !.lst = P.steps_, !.i = 1]]

\* The value a handle denotes when it is returned to the caller.
ValueOf(X, heap) == IF X.kind = "table" THEN heap[X.refs[1]] ELSE NoneSeq

\* transform, lines 142-145: one iteration; after the last one, return X.
transform_loop_step(P, K, fail) ==
    LET e == K.lst[K.i]
        st == P.store[e.obj]
        Xin == _return_X(P.use_init_data, e.tag, K.X, K.X_init)
        r == run_step(st, e.tag, "transform", Xin, K.y, K.heap)
        ok == ~fail /\ ~r.raised
        entry == LogEntry(K, K.i, e, "transform", r, st.fits, ok)
        last == K.i = Len(K.lst)
    IN IF ~ok THEN Abort(P, K, entry)
       ELSE [P |-> [P EXCEPT !.store[e.obj] = r.st],
             K |-> [K EXCEPT !.X = r.X, !.heap = r.heap, !.i = @ + 1,
                             !.log = Append(@, entry),
                             !.pc = IF last THEN "done" ELSE @,
                             !.lst = IF last THEN <<>> ELSE @,
                             !.ret = IF last THEN ValueOf(r.X, r.heap) ELSE @]]

\* predict, lines 112-114: type check, X_init copy, start of the loop over
\* self.steps_[:-1].
predict_begin(P, K, noSteps) ==
    IF ~check_allowed_types(K.Xarg.kind, {"table", "mapping"})
    THEN Raise(P, K, "TypeError")
    ELSE
      LET ci == _copy_X_if_use_init_data(P.use_init_data, K.Xarg, K.heap)
      IN IF P.steps_ = <<>>
         THEN Raise(P, [K EXCEPT !.phase = "predict", !.heap = ci.heap], noSteps)
         ELSE [P |-> P,
               K |-> [K EXCEPT !.phase = "predict", !.pc = "predict_loop",
                               !.X = K.Xarg, !.X_init = ci.X, !.heap = ci.heap,
                               !.orig = K.heap, !.lst = ButLast(P.steps_), !.i = 1]]

\* predict, lines 114-116: one iteration of the loop over steps_[:-1].
predict_loop_step(P, K, fail) ==
    LET e == K.lst[K.i]
        st == P.store[e.obj]
        Xin == _return_X(P.use_init_data, e.tag, K.X, K.X_init)
        r == run_step(st, e.tag, "transform", Xin, K.y, K.heap)
        ok == ~fail /\ ~r.raised
        entry == LogEntry(K, K.i, e, "transform", r, st.fits, ok)
    IN IF ~ok THEN Abort(P, K, entry)
       ELSE [P |-> [P EXCEPT !.store[e.obj] = r.st],
             K |-> [K EXCEPT !.X = r.X, !.heap = r.heap, !.i = @ + 1,
                             !.log = Append(@, entry)]]

\* Variant that keeps the prediction in self.rules.
predict_final_sets_rules(P, K, fail) ==
    LET e == Last(P.steps_)
        st == P.store[e.obj]
        Xin == _return_X(P.use_init_data, e.tag, K.X, K.X_init)
        r == run_step(st, e.tag, "predict", Xin, K.y, K.heap)
        ok == ~fail /\ ~r.raised
        entry == LogEntry(K, Len(P.steps_), e, "predict", r, st.fits, ok)
    IN IF ~ok THEN Abort(P, K, entry)
       ELSE [P |-> [P EXCEPT !.store[e.obj] = r.st, !.rules = r.out],
             K |-> [K EXCEPT !.X = r.X, !.heap = r.heap, !.pc = "done",
                             !.lst = <<>>, !.log = Append(@, entry),
                             !.ret = ValueOf(r.X, r.heap)]]

\* Variant in which the last step transforms instead of predicting.
predict_final_transform(P, K, fail) ==
    LET e == Last(P.steps_)
        st == P.store[e.obj]
        Xin == _return_X(P.use_init_data, e.tag, K.X, K.X_init)
        r == run_step(st, e.tag, "transform", Xin, K.y, K.heap)
        ok == ~fail /\ ~r.raised
        entry == LogEntry(K, Len(P.steps_), e, "transform", r, st.fits, ok)
    IN IF ~ok THEN Abort(P, K, entry)
       ELSE [P |-> [P EXCEPT !.store[e.obj] = r.st],
             K |-> [K EXCEPT !.X = r.X, !.heap = r.heap, !.pc = "done",
                             !.lst = <<>>, !.log = Append(@, entry),
                             !.ret = ValueOf(r.X, r.heap)]]

\* predict, lines 117-120: the last step predicts.
predict_final(P, K, fail) ==
    LET e == Last(P.steps_)
        st == P.store[e.obj]
        Xin == _return_X(P.use_init_data, e.tag, K.X, K.X_init)
        r == run_step(st, e.tag, "predict", Xin, K.y, K.heap)
        ok == ~fail /\ ~r.raised
        entry == LogEntry(K, Len(P.steps_), e, "predict", r, st.fits, ok)
    IN IF ~ok THEN Abort(P, K, entry)
       ELSE [P |-> [P EXCEPT !.store[e.obj] = r.st],
             K |-> [K EXCEPT !.X = r.X, !.heap = r.heap, !.pc = "done",
                             !.lst = <<>>, !.log = Append(@, entry),
                             !.ret = ValueOf(r.X, r.heap)]]

\* fit_transform line 173 / fit_predict line 202 / return of fit: what
\* follows a fit that returned.
after_fit(P, K, noSteps) ==
    IF K.api = "fit_transform" THEN transform_begin(P, K, noSteps)
    ELSE IF K.api = "fit_predict" THEN predict_begin(P, K, noSteps)
    ELSE [P |-> P, K |-> [K EXCEPT !.pc = "done"]]

\* ------------------------------------------------------------ the caller

XKinds == {"table", "mapping_shared", "mapping_distinct", "other"}

\* (X, y, sample_weight) as passed to fit: every well-typed combination, and
\* each argument in turn of a type that is neither table-like nor a mapping.
FitArgs ==
    {[xk |-> xk, yk |-> "series", wk |-> wk] :
        xk \in XKinds \ {"other"}, wk \in {"none", "series"}}
    \cup {[xk |-> "other", yk |-> "series", wk |-> "none"],
          [xk |-> "table", yk |-> "other", wk |-> "none"],
          [xk |-> "table", yk |-> "series", wk |-> "other"]}
NoStepsErrors == {"AttributeError", "NoneTypeError"}

\* The argument X the caller builds: one table, a mapping holding the same
\* table under every tag, a mapping holding one table per tag, or a value
\* that is neither.
MakeX(xk, n) ==
    CASE xk = "table" -> [X |-> TableX(1), heap |-> << <<1>> >>]
      [] xk = "mapping_shared" ->
           [X |-> MappingX([j \in 1..n |-> 1]), heap |-> << <<2>> >>]
      [] xk = "mapping_distinct" ->
           [X |-> MappingX([j \in 1..n |-> j]), heap |-> [j \in 1..n |-> <<3, j>>]]
      [] OTHER -> [X |-> OtherX, heap |-> <<>>]

NewCall(api, xk, yk, wk) ==
    LET mk == MakeX(xk, Len(steps))
    IN [IdleCall EXCEPT !.api = api, !.Xarg = mk.X, !.heap = mk.heap,
                        !.heap0 = mk.heap, !.y = yk, !.sample_weight = wk]

CanCall(c) == calls[c].pc \in {"idle", "done"} /\ ncalls < MaxCalls

\* Writes a handler's result back to the pipeline object and the call frame.
Apply(c, r) ==
    /\ steps' = r.P.steps
    /\ steps_' = r.P.steps_
    /\ rules' = r.P.rules
    /\ use_init_data' = r.P.use_init_data
    /\ store' = r.P.store
    /\ calls' = [calls EXCEPT ![c] = r.K]

\* ------------------------------------------------------------ actions

\* A call of fit, fit_transform or fit_predict enters fit.
Fit(c, api, a) ==
    /\ CanCall(c)
    /\ Apply(c, fit_begin(Pipe, NewCall(api, a.xk, a.yk, a.wk), LiveBase(Pipe, calls)))
    /\ ncalls' = ncalls + 1
    /\ UNCHANGED <<nfits, accVars>>

FitStep(c, fail) ==
    /\ calls[c].pc = "fit_loop"
    /\ calls[c].i <= Len(calls[c].lst)
    /\ Apply(c, fit_loop_step(Pipe, calls[c], fail))
    /\ UNCHANGED <<ncalls, nfits, accVars>>

\* The last step is fitted; fit returns, and fit_transform / fit_predict go
\* on to transform / predict with the X they were called with.
FitFinal(c, fail) ==
    /\ calls[c].pc = "fit_loop"
    /\ calls[c].i > Len(calls[c].lst)
    /\ LET r == fit_final(Pipe, calls[c], fail)
           fitted == r.K.pc = "fit_done"
       IN /\ Apply(c, IF fitted THEN after_fit(r.P, r.K, "AttributeError") ELSE r)
          /\ nfits' = nfits + (IF fitted THEN 1 ELSE 0)
    /\ UNCHANGED <<ncalls, accVars>>

Transform(c, xk, noSteps) ==
    /\ CanCall(c)
    /\ Apply(c, transform_begin(Pipe, NewCall("transform", xk, "none", "none"),
                                noSteps))
    /\ ncalls' = ncalls + 1
    /\ UNCHANGED <<nfits, accVars>>

TransformStep(c, fail) ==
    /\ calls[c].pc = "transform_loop"
    /\ Apply(c, transform_loop_step(Pipe, calls[c], fail))
    /\ UNCHANGED <<ncalls, nfits, accVars>>

Predict(c, xk, noSteps) ==
    /\ CanCall(c)
    /\ Apply(c, predict_begin(Pipe, NewCall("predict", xk, "none", "none"),
                              noSteps))
    /\ ncalls' = ncalls + 1
    /\ UNCHANGED <<nfits, accVars>>

PredictStep(c, fail) ==
    /\ calls[c].pc = "predict_loop"
    /\ calls[c].i <= Len(calls[c].lst)
    /\ Apply(c, predict_loop_step(Pipe, calls[c], fail))
    /\ UNCHANGED <<ncalls, nfits, accVars>>

PredictFinal(c, fail) ==
    /\ calls[c].pc = "predict_loop"
    /\ calls[c].i > Len(calls[c].lst)
    /\ Apply(c, predict_final(Pipe, calls[c], fail))
    /\ UNCHANGED <<ncalls, nfits, accVars>>

\* ------------------------------------------------------------ specification

\* LinearPipeline.__init__: a pipeline of 1..MaxSteps unfitted steps tagged
\* 1..n, each pure or in-place, with use_init_data None or a list of tags.
InitPipeline ==
    \E n \in 1..MaxSteps :
      /\ steps = [j \in 1..n |-> [tag |-> j, obj |-> j]]
      /\ \E modes \in [1..n -> Modes] : store = [j \in 1..n |-> Template(modes[j])]
      /\ use_init_data \in {UseInitNone} \cup {UseInitList(ts) : ts \in SUBSET (1..n)}
      /\ steps_ = <<>>
      /\ rules = NoneSeq
      /\ calls = [c \in Callers |-> IdleCall]
      /\ ncalls = 0
      /\ nfits = 0

NoAccessor ==
    /\ acc = [class_tag |-> 0, class_attribute |-> 0]
    /\ pipeline_params = <<>>
    /\ got = [status |-> "none", value |-> 0]
    /\ ngets = 0
    /\ earlier = [status |-> "none", value |-> 0]

Init == InitPipeline /\ NoAccessor

\* One caller: public calls never overlap.
Next ==
    \/ \E api \in {"fit", "fit_transform", "fit_predict"}, a \in FitArgs :
          Fit(1, api, a)
    \/ \E fail \in BOOLEAN : FitStep(1, fail)
    \/ \E fail \in BOOLEAN : FitFinal(1, fail)
    \/ \E xk \in XKinds, e \in NoStepsErrors : Transform(1, xk, e)
    \/ \E fail \in BOOLEAN : TransformStep(1, fail)
    \/ \E xk \in XKinds, e \in NoStepsErrors : Predict(1, xk, e)
    \/ \E fail \in BOOLEAN : PredictStep(1, fail)
    \/ \E fail \in BOOLEAN : PredictFinal(1, fail)

Spec == Init /\ [][Next]_vars

\* Well-typed arguments only: one table, or one table per tag.
ConcXKinds == {"table", "mapping_distinct"}
ConcFitArgs == {[xk |-> xk, yk |-> "series", wk |-> "none"] : xk \in ConcXKinds}

\* Caller 1 makes the first call.
Turn(c) == c = 2 => calls[1].pc # "idle"

\* Two callers on the same pipeline object, with no lock: each step of a
\* public call of one may fall between two steps of a call of the other.
NextConc ==
    \/ \E c \in Callers, api \in {"fit", "fit_transform", "fit_predict"},
           a \in ConcFitArgs : Turn(c) /\ Fit(c, api, a)
    \/ \E c \in Callers, fail \in BOOLEAN : FitStep(c, fail)
    \/ \E c \in Callers, fail \in BOOLEAN : FitFinal(c, fail)
    \/ \E c \in Callers, xk \in ConcXKinds :
          Turn(c) /\ Transform(c, xk, "AttributeError")
    \/ \E c \in Callers, fail \in BOOLEAN : TransformStep(c, fail)
    \/ \E c \in Callers, xk \in ConcXKinds :
          Turn(c) /\ Predict(c, xk, "AttributeError")
    \/ \E c \in Callers, fail \in BOOLEAN : PredictStep(c, fail)
    \/ \E c \in Callers, fail \in BOOLEAN : PredictFinal(c, fail)

SpecConc == Init /\ [][NextConc]_vars

\* ------------------------------------------------------------ ClassAccessor

MaxKeys == 2
Keys == 1..MaxKeys

\* The attribute value a step tagged t holds under attribute name a.
AttrValue(t, a) == 10 * t + a

\* Every state mapping over the tags and attribute names in Keys: any subset
\* of the tags, each with any subset of the attributes.
AllParams ==
    UNION {{[t \in T |-> [a \in sel[t] |-> AttrValue(t, a)]] :
               sel \in [T -> SUBSET Keys]} : T \in SUBSET Keys}

\* Variant looking the two keys up in the wrong order.
ClassAccessor_get_swapped(a, params) ==
    IF a.class_tag \in DOMAIN params
    THEN IF a.class_attribute \in DOMAIN params
            /\ a.class_tag \in DOMAIN params[a.class_attribute]
         THEN [status |-> "returned",
               value |-> params[a.class_attribute][a.class_tag]]
         ELSE [status |-> "KeyError", value |-> a.class_attribute]
    ELSE [status |-> "ValueError", value |-> a.class_tag]

\* Variant answering None for a tag that is not in the mapping.
ClassAccessor_get_sentinel(a, params) ==
    IF a.class_tag \in DOMAIN params
    THEN IF a.class_attribute \in DOMAIN params[a.class_tag]
         THEN [status |-> "returned",
               value |-> params[a.class_tag][a.class_attribute]]
         ELSE [status |-> "KeyError", value |-> a.class_attribute]
    ELSE [status |-> "returned", value |-> 0]

\* ClassAccessor.get: the attribute, the KeyError of the namespace lookup, or
\* the ValueError naming the tag.
ClassAccessor_get(a, params) ==
    IF a.class_tag \in DOMAIN params
    THEN IF a.class_attribute \in DOMAIN params[a.class_tag]
         THEN [status |-> "returned",
               value |-> params[a.class_tag][a.class_attribute]]
         ELSE [status |-> "KeyError", value |-> a.class_attribute]
    ELSE [status |-> "ValueError", value |-> a.class_tag]

Get ==
    /\ got' = ClassAccessor_get(acc, pipeline_params)
    /\ UNCHANGED <<acc, pipeline_params, ngets, earlier, pipeVars>>

\* A one-step pipeline that is never called, beside the accessor.
IdlePipeline ==
    /\ steps = <<[tag |-> 1, obj |-> 1]>>
    /\ store = <<Template("pure")>>
    /\ use_init_data = UseInitNone
    /\ steps_ = <<>>
    /\ rules = NoneSeq
    /\ calls = [c \in Callers |-> IdleCall]
    /\ ncalls = 0
    /\ nfits = 0

\* ClassAccessor.__init__ and a state mapping built by the caller.
InitAcc ==
    /\ IdlePipeline
    /\ acc \in [class_tag : Keys, class_attribute : Keys]
    /\ pipeline_params \in AllParams
    /\ got = [status |-> "none", value |-> 0]
    /\ ngets = 0
    /\ earlier = [status |-> "none", value |-> 0]

NextAcc == Get

SpecAcc == InitAcc /\ [][NextAcc]_vars

\* ------------------------------------- ClassAccessor over changing state

MaxGets == 2

\* Variant that takes the namespace of the tag out of the mapping
\* (dict.pop) instead of indexing it.
get_call_pop(a, params) ==
    [acc |-> a,
     pipeline_params |-> [t \in DOMAIN params \ {a.class_tag} |-> params[t]],
     got |-> ClassAccessor_get(a, params)]

\* A call of get as seen by its caller: the accessor and the mapping after
\* the call (get assigns to neither) and the outcome.
get_call(a, params) ==
    [acc |-> a, pipeline_params |-> params, got |-> ClassAccessor_get(a, params)]

Resolve ==
    /\ ngets < MaxGets
    /\ LET r == get_call(acc, pipeline_params)
       IN /\ acc' = r.acc
          /\ pipeline_params' = r.pipeline_params
          /\ got' = r.got
    /\ ngets' = ngets + 1
    /\ UNCHANGED <<earlier, pipeVars>>

\* The caller's next state mapping: tag t is added with an empty namespace,
\* or dropped.
SnapshotTag(t) ==
    /\ pipeline_params' =
          IF t \in DOMAIN pipeline_params
          THEN [u \in DOMAIN pipeline_params \ {t} |-> pipeline_params[u]]
          ELSE [u \in DOMAIN pipeline_params \cup {t} |->
                   IF u = t THEN <<>> ELSE pipeline_params[u]]
    /\ ngets' = 0
    /\ earlier' = IF ngets >= 1 THEN got ELSE earlier
    /\ UNCHANGED <<acc, got, pipeVars>>

\* The caller's next state mapping: attribute a of tag t is added, or
\* dropped.
SnapshotAttribute(t, a) ==
    /\ t \in DOMAIN pipeline_params
    /\ LET old == DOMAIN pipeline_params[t]
           new == IF a \in old THEN old \ {a} ELSE old \cup {a}
       IN pipeline_params' =
             [pipeline_params EXCEPT ![t] = [b \in new |-> AttrValue(t, b)]]
    /\ ngets' = 0
    /\ earlier' = IF ngets >= 1 THEN got ELSE earlier
    /\ UNCHANGED <<acc, got, pipeVars>>

NextAccSnap ==
    \/ Resolve
    \/ \E t \in Keys : SnapshotTag(t)
    \/ \E t \in Keys, a \in Keys : SnapshotAttribute(t, a)

SpecAccSnap == InitAcc /\ [][NextAccSnap]_vars

\* ============================================================ properties

K1 == calls[1]
Log == K1.log

\* use_init_data is configured and lists this tag.
UsesInit(step_tag) == ~use_init_data.isNone /\ step_tag \in use_init_data.tags

IsFitEntry(e) == e.phase = "fit"
FitLog == SelectSeq(Log, IsFitEntry)

\* The fit of the current public call has returned without an error.
FitReturned ==
    \/ K1.api = "fit" /\ K1.pc = "done" /\ K1.err = "none"
    \/ K1.api \in {"fit_transform", "fit_predict"} /\ K1.phase \in {"transform", "predict"}

\* C1: in a pipeline of at least 2 steps, every step listed in use_init_data
\* that is not first is handed a table equal to the original input of the
\* running fit / transform / predict (stated for X a single table).
C1_InitDataStepGetsOriginal ==
    \A k \in 1..Len(Log) :
        (Len(steps) >= 2 /\ K1.Xarg.kind = "table"
         /\ UsesInit(Log[k].tag) /\ Log[k].pos > 1)
            => Log[k].in = Log[k].init

\* C2: with use_init_data None or empty, the first step is handed the original
\* input and every later step is handed the output of the step before it.
C2_ChainedExecution ==
    (use_init_data.isNone \/ use_init_data.tags = {}) =>
        \A k \in 1..Len(Log) :
            IF Log[k].pos = 1
            THEN Log[k].in = Log[k].init
            ELSE /\ k > 1
                 /\ Log[k - 1].phase = Log[k].phase
                 /\ Log[k - 1].pos = Log[k].pos - 1
                 /\ Log[k - 1].ok
                 /\ Log[k].in = Log[k - 1].out

\* A later step has been handed a previous output that differs from the
\* original input, under an empty use_init_data list.
C2_Witness ==
    /\ use_init_data = UseInitList({})
    /\ \E k \in 1..Len(Log) : Log[k].pos > 1 /\ Log[k].in # Log[k].init

\* C3: a well-typed transform or predict call made before any fit call has
\* succeeded ends in a not-fitted error, with no step invoked.
C3_NotFittedError ==
    (K1.api \in {"transform", "predict"} /\ K1.pc = "done" /\ nfits = 0
     /\ K1.Xarg.kind # "other")
        => (K1.err = "NotFittedError" /\ Log = <<>>)

\* C4: fit invokes the steps in list order, one invocation each: the combined
\* fit-and-transform for every step but the last, fit alone for the last; a
\* fit that returned has invoked every step.
C4_FitOrder ==
    /\ \A k \in 1..Len(FitLog) :
          /\ k <= Len(steps_)
          /\ FitLog[k].pos = k
          /\ FitLog[k].tag = steps_[k].tag
          /\ FitLog[k].obj = steps_[k].obj
          /\ FitLog[k].cap = IF k < Len(steps_) THEN "fit_transform" ELSE "fit"
          /\ FitLog[k].fits = 0
          /\ (k < Len(FitLog) => FitLog[k].ok)
    /\ FitReturned =>
          /\ Len(FitLog) = Len(steps_)
          /\ \A k \in 1..Len(FitLog) : FitLog[k].ok

\* A fit over at least two steps has returned.
C4_Witness == FitReturned /\ Len(FitLog) >= 2

\* C5: once fit has returned, rules is the rule-set of the last entry of
\* steps_, which is a copy and not the configured step object.
C5_RulesOfFittedLastStep ==
    FitReturned =>
        /\ rules = store[Last(steps_).obj].rules
        /\ rules # NoneSeq
        /\ Last(steps_).obj # Last(steps).obj
        /\ rules # store[Last(steps).obj].rules

\* A second fit has returned.
C5_Witness == FitReturned /\ nfits = 2

\* C6: the configured steps list and the state of the step objects in it stay
\* as constructed, whatever calls are made and however they end.
C6_ConfigUntouched ==
    \A j \in 1..Len(steps) :
        /\ steps[j] = [tag |-> j, obj |-> j]
        /\ store[j] = Template(store[j].mode)

\* A fit has succeeded and a later call was aborted by a step error.
C6_Witness == nfits >= 1 /\ ncalls = 2 /\ K1.pc = "done" /\ K1.err = "StepError"

\* fit run to its end with no step raising.
RECURSIVE RunFit(_, _)
RunFit(P, K) ==
    IF K.pc # "fit_loop" THEN [P |-> P, K |-> K]
    ELSE IF K.i <= Len(K.lst)
         THEN LET r == fit_loop_step(P, K, FALSE) IN RunFit(r.P, r.K)
         ELSE fit_final(P, K, FALSE)

\* A freshly constructed pipeline with the configuration of this one.
FreshPipe ==
    [steps |-> [j \in 1..Len(steps) |-> [tag |-> steps[j].tag, obj |-> j]],
     steps_ |-> <<>>, rules |-> NoneSeq, use_init_data |-> use_init_data,
     store |-> [j \in 1..Len(steps) |-> Template(store[steps[j].obj].mode)]]

\* The pipeline after fit, with the arguments of call K, on FreshPipe.
FreshFit(K) ==
    LET K0 == [IdleCall EXCEPT !.api = "fit", !.Xarg = K.Xarg, !.heap = K.heap0,
                               !.heap0 = K.heap0, !.y = K.y,
                               !.sample_weight = K.sample_weight]
        b == fit_begin(FreshPipe, K0, Len(steps))
    IN RunFit(b.P, b.K).P

\* C7: the steps_ (tags and step states) and rules a returned fit leaves are
\* those the same fit call leaves on a freshly constructed pipeline.
C7_RefitEqualsFreshFit ==
    FitReturned =>
        LET f == FreshFit(K1)
        IN /\ Len(steps_) = Len(f.steps_)
           /\ \A j \in 1..Len(steps_) :
                 /\ steps_[j].tag = f.steps_[j].tag
                 /\ store[steps_[j].obj] = f.store[f.steps_[j].obj]
           /\ rules = f.rules

\* A fit has returned on a pipeline that an earlier fit had already fitted.
C7_Witness == FitReturned /\ nfits = 2 /\ K1.api = "fit"

BadArgs(K) ==
    K.Xarg.kind = "other" \/ K.y = "other" \/ K.sample_weight = "other"

\* C8: a call whose X, y or sample_weight is neither a table nor a mapping
\* ends at once in a type error: no step is invoked and steps_, rules and
\* the step objects are left as they were.
C8_TypeErrorBeforeAnyStep ==
    [][(calls'[1] # calls[1] /\ BadArgs(calls'[1])) =>
          /\ calls'[1].pc = "done"
          /\ calls'[1].err = "TypeError"
          /\ calls'[1].log = <<>>
          /\ steps_' = steps_
          /\ rules' = rules
          /\ store' = store]_vars

\* A call on a fitted pipeline has ended in a type error for its y.
C8_Witness == nfits >= 1 /\ K1.err = "TypeError" /\ K1.y = "other"

\* C9: every step listed in use_init_data is handed a table equal to the
\* original input of the running fit / transform / predict, whatever the
\* earlier steps did to the tables they were given (stated for X a single
\* table).
C9_InitSnapshotUntouched ==
    \A k \in 1..Len(Log) :
        (K1.Xarg.kind = "table" /\ UsesInit(Log[k].tag)) => Log[k].in = Log[k].init

\* C10: get on a state mapping that holds class_tag with class_attribute
\* present returns the value stored there.
C10_GetReturnsAttribute ==
    (/\ got.status # "none"
     /\ acc.class_tag \in DOMAIN pipeline_params
     /\ acc.class_attribute \in DOMAIN pipeline_params[acc.class_tag])
        => /\ got.status = "returned"
           /\ got.value = pipeline_params[acc.class_tag][acc.class_attribute]

\* get has returned an attribute from a mapping that holds another tag with
\* the same attribute name.
C10_Witness ==
    /\ got.status = "returned"
    /\ \E t \in DOMAIN pipeline_params :
          t # acc.class_tag /\ acc.class_attribute \in DOMAIN pipeline_params[t]

\* C11: get on a state mapping that does not hold class_tag raises the
\* ValueError that names the tag and returns nothing, whatever else the
\* mapping holds.
C11_MissingTagRaises ==
    (got.status # "none" /\ acc.class_tag \notin DOMAIN pipeline_params)
        => (got.status = "ValueError" /\ got.value = acc.class_tag)

\* get has raised for a missing tag on a mapping in which another tag holds
\* the attribute asked for.
C11_Witness ==
    /\ got.status = "ValueError"
    /\ \E t \in DOMAIN pipeline_params :
          acc.class_attribute \in DOMAIN pipeline_params[t]

IsTransformEntry(e) == e.phase = "transform"
TransformLog == SelectSeq(Log, IsTransformEntry)

IsPredictEntry(e) == e.phase = "predict"
PredictLog == SelectSeq(Log, IsPredictEntry)

\* The current public call has returned a value from its transform
\* (its predict) phase.
TransformReturned == K1.phase = "transform" /\ K1.pc = "done" /\ K1.err = "none"
PredictReturned == K1.phase = "predict" /\ K1.pc = "done" /\ K1.err = "none"

\* C12: predict calls transform, and nothing else, on every step of steps_
\* but the last, in list order, then predict on the last step, and returns
\* that prediction; transform calls transform on every step of steps_, the
\* last included, in list order, and returns the output of the last step.
C12_TransformAndPredictOrder ==
    /\ \A k \in 1..Len(TransformLog) :
          /\ TransformLog[k].pos = k
          /\ TransformLog[k].obj = steps_[k].obj
          /\ TransformLog[k].cap = "transform"
    /\ \A k \in 1..Len(PredictLog) :
          /\ PredictLog[k].pos = k
          /\ PredictLog[k].obj = steps_[k].obj
          /\ PredictLog[k].cap = IF k = Len(steps_) THEN "predict" ELSE "transform"
    /\ TransformReturned
          => /\ Len(TransformLog) = Len(steps_)
             /\ K1.ret = Last(TransformLog).out
    /\ PredictReturned
          => /\ Len(PredictLog) = Len(steps_)
             /\ K1.ret = Last(PredictLog).out

\* predict has returned from a fitted pipeline of at least 2 steps.
C12_Witness ==
    /\ K1.api = "predict" /\ PredictReturned
    /\ Len(steps_) >= 2
    /\ Last(PredictLog).cap = "predict"

\* transform (predict) run to its end with no step raising.
RECURSIVE RunTransform(_, _)
RunTransform(P, K) ==
    IF K.pc # "transform_loop" THEN [P |-> P, K |-> K]
    ELSE LET r == transform_loop_step(P, K, FALSE) IN RunTransform(r.P, r.K)

RECURSIVE RunPredict(_, _)
RunPredict(P, K) ==
    IF K.pc # "predict_loop" THEN [P |-> P, K |-> K]
    ELSE IF K.i <= Len(K.lst)
         THEN LET r == predict_loop_step(P, K, FALSE) IN RunPredict(r.P, r.K)
         ELSE predict_final(P, K, FALSE)

\* What transform(X) (predict(X)) returns when called now with the X of call
\* K, the tables of X holding the values of heap.
NextTransform(K, heap) ==
    LET K0 == [IdleCall EXCEPT !.api = "transform", !.Xarg = K.Xarg,
                               !.heap = heap, !.heap0 = heap]
        b == transform_begin(Pipe, K0, "AttributeError")
    IN RunTransform(b.P, b.K).K.ret

NextPredict(K, heap) ==
    LET K0 == [IdleCall EXCEPT !.api = "predict", !.Xarg = K.Xarg,
                               !.heap = heap, !.heap0 = heap]
        b == predict_begin(Pipe, K0, "AttributeError")
    IN RunPredict(b.P, b.K).K.ret

\* C13: what fit_transform(X, y) returned is what a transform(X)
\* that follows it returns, be X taken with the values it had when it was
\* passed to fit_transform or with the values it has now; likewise
\* fit_predict and predict.
C13_FitTransformThenTransform ==
    /\ (K1.api = "fit_transform" /\ TransformReturned)
          => \/ K1.ret = NextTransform(K1, K1.heap0)
             \/ K1.ret = NextTransform(K1, K1.heap)
    /\ (K1.api = "fit_predict" /\ PredictReturned)
          => \/ K1.ret = NextPredict(K1, K1.heap0)
             \/ K1.ret = NextPredict(K1, K1.heap)

\* C14: when a step raises during fit, transform or predict, the call ends
\* there with the error of the step: the raising call is the last capability
\* call of the public call, and no step is called a second time in the same
\* phase.
C14_StepErrorAborts ==
    /\ \A k \in 1..Len(Log) :
          ~Log[k].ok => /\ k = Len(Log)
                        /\ K1.pc = "done"
                        /\ K1.err = "StepError"
    /\ K1.err = "StepError" => (Log # <<>> /\ ~Last(Log).ok)
    /\ \A j, k \in 1..Len(Log) :
          (j < k /\ Log[j].phase = Log[k].phase) => Log[j].pos < Log[k].pos

\* A step that is not the last one has raised, in a transform or predict
\* phase: the steps after it were not called.
C14_Witness ==
    /\ K1.err = "StepError"
    /\ K1.phase \in {"transform", "predict"}
    /\ Last(Log).pos < Len(steps_)

\* C15: a get call leaves the accessor and the state mapping as they were;
\* a second get on the same state mapping has the outcome of the first; and
\* a get that returns, returns the attribute held by the mapping it was
\* given, whatever an earlier get on another mapping returned.
C15_GetHasNoSideEffect ==
    [][ngets' = ngets + 1 =>
          /\ acc' = acc
          /\ pipeline_params' = pipeline_params
          /\ ngets >= 1 => got' = got
          /\ (/\ acc.class_tag \in DOMAIN pipeline_params
              /\ acc.class_attribute \in DOMAIN pipeline_params[acc.class_tag])
                => got' = [status |-> "returned",
                           value |-> AttrValue(acc.class_tag, acc.class_attribute)]
          /\ got'.status = "returned" =>
                /\ acc.class_tag \in DOMAIN pipeline_params
                /\ acc.class_attribute \in DOMAIN pipeline_params[acc.class_tag]
       ]_vars

\* get has raised on an earlier state mapping and has returned twice on the
\* present one.
C15_Witness ==
    /\ earlier.status = "ValueError"
    /\ ngets = 2
    /\ got.status = "returned"

\* The running call is inside one of the loops over the steps.
InLoop == K1.pc \in {"fit_loop", "transform_loop", "predict_loop"}

\* C17: no step is handed None: every capability call was given a table, and
\* while the steps run X_init is None only if use_init_data is None or
\* empty, in which case no tag selects X_init.
C17_NoStepGetsNone ==
    /\ \A k \in 1..Len(Log) : Log[k].in # NoneSeq
    /\ (InLoop /\ K1.X_init = NoneX)
          => /\ use_init_data.isNone \/ use_init_data.tags = {}
             /\ \A j \in 1..Len(steps) : ~UsesInit(steps[j].tag)
    /\ (InLoop /\ \E j \in 1..Len(steps) : UsesInit(steps[j].tag))
          => K1.X_init # NoneX

\* A step listed in use_init_data has been called, in a predict phase, and
\* was handed a table.
C17_Witness ==
    \E k \in 1..Len(Log) :
        /\ UsesInit(Log[k].tag)
        /\ Log[k].phase = "predict"
        /\ Log[k].in # NoneSeq
        /\ Log[k].ok

\* No public call is running.
BetweenCalls == K1.pc \in {"idle", "done"}

\* C18: between public calls, once steps_ is set, rules is the rule-set of
\* the last step of the present steps_, also after a fit that a step error
\* has aborted.
C18_RulesOfCurrentSteps ==
    (BetweenCalls /\ steps_ # <<>>) => rules = store[Last(steps_).obj].rules

\* A step of a transform or predict call, or of the transform or predict
\* that fit_transform or fit_predict runs once its fit has returned.
TransformOrPredictStep ==
    /\ calls'[1] # calls[1]
    /\ \/ calls'[1].api \in {"transform", "predict"}
       \/ calls[1].pc \in {"transform_loop", "predict_loop"}

\* C19: no step of transform or predict, be the call successful or aborted,
\* changes steps, steps_ (the same step objects in the same order), rules or
\* use_init_data, nor the number of fits that have returned.
C19_TransformPredictReadOnly ==
    [][TransformOrPredictStep =>
          /\ steps' = steps
          /\ steps_' = steps_
          /\ rules' = rules
          /\ use_init_data' = use_init_data
          /\ nfits' = nfits
       ]_vars

\* A transform call on a fitted pipeline has been aborted by a step error.
C19_Witness ==
    /\ nfits >= 1
    /\ K1.api = "transform"
    /\ K1.pc = "done"
    /\ K1.err = "StepError"

\* C16: when two calls on the same pipeline overlap, each step listed in
\* use_init_data is handed the original input of its own call.
C16_OwnOriginalInput ==
    (calls[1].pc # "idle" /\ calls[2].pc # "idle") =>
        \A c \in Callers :
            \A k \in 1..Len(calls[c].log) :
                UsesInit(calls[c].log[k].tag)
                    => calls[c].log[k].in = calls[c].log[k].init

\* While the fit of caller 1 is running, a transform or predict of caller 2
\* has called transform on a step copy of the present steps_ that has not
\* been fitted.
C16_Witness ==
    /\ calls[1].phase = "fit" /\ calls[1].pc = "fit_loop"
    /\ \E k \in 1..Len(calls[2].log) :
          /\ calls[2].log[k].phase \in {"transform", "predict"}
          /\ calls[2].log[k].fits = 0
          /\ calls[2].log[k].ok
          /\ \E j \in 1..Len(steps_) : steps_[j].obj = calls[2].log[k].obj

====
